---- MODULE Spec2Model ----
(***************************************************************************)
(* Event store, conflict detector and reconciler of the smart calendar     *)
(* assistant (src/app/db.py, src/app/api.py).                              *)
(*                                                                         *)
(* Timestamps are stored by SQLite as TEXT and compared as text.  A value  *)
(* is either a timed ISO string "YYYY-MM-DDTHH:MM:SS" or, for an all-day   *)
(* remote event, a date-only string "YYYY-MM-DD".  A value is modelled by  *)
(* its instant t (in ticks) and its form; TextKey gives the position of    *)
(* the string in the lexicographic order SQLite uses.  One tick stands for *)
(* the default gap of 15 minutes; every second tick is a midnight.  A      *)
(* timed string of the provider ends in a UTC offset ("...-05:00"); then t *)
(* is the wall time written in the string and off the offset to add to     *)
(* reach the instant.                                                      *)
(***************************************************************************)
EXTENDS Integers, Sequences, FiniteSets, TLC

(* ------------------------------ bounds -------------------------------- *)
MaxTime == 4
MaxCalls == 3
MaxBatch == 3

Midnights == {t \in 0..MaxTime : t % 2 = 0}

(* NULL of a nullable column / Python None of an integer or id value. *)
NULL == 0
(* Python None of an optional argument is <<>>, a given value v is <<v>>. *)
None == << >>
Some(v) == << v >>

(* --------------------------- time values ------------------------------ *)
Timed(t) == [t |-> t, allDay |-> FALSE, off |-> 0]
DateOnly(t) == [t |-> t, allDay |-> TRUE, off |-> 0]
(* A timed string with a UTC offset suffix, off ticks behind UTC. *)
Offsets == {1, 3}
Zoned(t, off) == [t |-> t, allDay |-> FALSE, off |-> off]
TimedVals == {Timed(t) : t \in 0..MaxTime}
DateVals == {DateOnly(t) : t \in Midnights}

(* The instant a stored string denotes. *)
Instant(v) == v.t + v.off

(* Position of the ISO string in lexicographic (SQLite TEXT) order: the    *)
(* date-only string is a proper prefix of every timed string of that day,  *)
(* the string without offset a proper prefix of the one with an offset,    *)
(* and the wall time is compared before the offset.                        *)
TextKey(v) == 5 * v.t + (IF v.allDay THEN 0 ELSE 1 + v.off)
TextLess(a, b) == TextKey(a) < TextKey(b)
TextLeq(a, b) == TextKey(a) <= TextKey(b)

(* datetime.fromisoformat(s) shifted by delta and written back with        *)
(* isoformat(): always a timed string, with the offset it had.             *)
ShiftIso(v, delta) == [t |-> v.t + delta, allDay |-> FALSE, off |-> v.off]

(* ----------------------------- drafts --------------------------------- *)
ExtIds == {1, 2}
PayloadA == [title |-> "a", description |-> "", location |-> "", attendees |-> << >>]
PayloadB == [title |-> "b", description |-> "d", location |-> "l", attendees |-> << "x" >>]

MkDraft(p, s, e, x) ==
  [title |-> p.title, start_datetime |-> s, end_datetime |-> e,
   description |-> p.description, location |-> p.location,
   attendees |-> p.attendees, calendar_event_id |-> x]

(* Drafts of the store specification: two contents that differ in every   *)
(* mutable field, each with every external id or none.                     *)
StoreDrafts ==
  {MkDraft(PayloadA, Timed(1), Timed(2), x) : x \in ExtIds \cup {NULL}}
    \cup {MkDraft(PayloadB, DateOnly(2), DateOnly(4), x) : x \in ExtIds \cup {NULL}}

(* Events stored directly before a reconciliation: one whose external id  *)
(* the provider events carry, one with another.                            *)
SyncDrafts ==
  { MkDraft(PayloadA, Timed(1), Timed(2), 1),
    MkDraft(PayloadB, DateOnly(2), DateOnly(4), 2) }

(* Intervals of the query specifications: a regular, a zero-length, an     *)
(* inverted and an all-day one.                                            *)
SampleIntervals ==
  { << Timed(1), Timed(3) >>, << Timed(2), Timed(2) >>,
    << Timed(3), Timed(1) >>, << DateOnly(2), DateOnly(4) >> }
QueryDrafts == {MkDraft(PayloadA, i[1], i[2], NULL) : i \in SampleIntervals}

Gaps == {0, 1}

(* gap_minutes: int = 15, as one time unit of the model. *)
DefaultGap == 1

(* What the parser can make of a prompt: nothing, or an event without      *)
(* calendar_event_id.  The second interval conflicts with the other two,   *)
(* which do not conflict with each other.                                  *)
ParsedEvents ==
  {None} \cup {Some(MkDraft(PayloadA, Timed(i[1]), Timed(i[2]), NULL)) :
                 i \in {<<0, 1>>, <<1, 3>>, <<3, 4>>}}
Limits == {None, Some(0), Some(1), Some(2)}

(* Provider events around the hour a clock change repeats: the first      *)
(* carries the earliest wall time and the latest instant.                  *)
ZonedDrafts ==
  { MkDraft(PayloadA, Zoned(1, 3), Zoned(2, 3), 1),
    MkDraft(PayloadB, Zoned(2, 1), Zoned(3, 1), 2),
    MkDraft(PayloadA, Zoned(0, 1), Zoned(1, 1), NULL) }
RangeBounds == {None} \cup {Some(v) : v \in TimedVals}

VARIABLES events, clock, op, arg, ret, tasks
vars == << events, clock, op, arg, ret, tasks >>

(* ---------------------------- store_event ----------------------------- *)
(* Variant: the id is the number of rows stored so far, not one more. *)
NewRow_IdNotFresh(id, d, sync, now) ==
  [id |-> IF id > 1 THEN id - 1 ELSE id, title |-> d.title,
   start_datetime |-> d.start_datetime, end_datetime |-> d.end_datetime,
   description |-> d.description, location |-> d.location,
   attendees |-> d.attendees, calendar_event_id |-> d.calendar_event_id,
   created_at |-> now, updated_at |-> now,
   synced_at |-> IF sync THEN now ELSE NULL,
   is_deleted |-> FALSE]

NewRow(id, d, sync, now) ==
  [id |-> id, title |-> d.title,
   start_datetime |-> d.start_datetime, end_datetime |-> d.end_datetime,
   description |-> d.description, location |-> d.location,
   attendees |-> d.attendees, calendar_event_id |-> d.calendar_event_id,
   created_at |-> now, updated_at |-> now,
   synced_at |-> IF sync THEN now ELSE NULL,
   is_deleted |-> FALSE]

(* Variant: the update also rewrites created_at. *)
UpdateRow_Recreate(r, d, now) ==
  [r EXCEPT !.title = d.title,
            !.start_datetime = d.start_datetime,
            !.end_datetime = d.end_datetime,
            !.description = d.description,
            !.location = d.location,
            !.attendees = d.attendees,
            !.created_at = now,
            !.updated_at = now,
            !.synced_at = now]

(* Variant: the update also clears the deleted flag. *)
UpdateRow_Undelete(r, d, now) ==
  [r EXCEPT !.title = d.title,
            !.start_datetime = d.start_datetime,
            !.end_datetime = d.end_datetime,
            !.description = d.description,
            !.location = d.location,
            !.attendees = d.attendees,
            !.updated_at = now,
            !.synced_at = now,
            !.is_deleted = FALSE]

UpdateRow(r, d, now) ==
  [r EXCEPT !.title = d.title,
            !.start_datetime = d.start_datetime,
            !.end_datetime = d.end_datetime,
            !.description = d.description,
            !.location = d.location,
            !.attendees = d.attendees,
            !.updated_at = now,
            !.synced_at = now]

(* Variant: the lookup sees only rows that were synced before. *)
ExistingIds_SyncedOnly(evs, x) ==
  {i \in DOMAIN evs : evs[i].calendar_event_id = x /\ evs[i].synced_at # NULL}

(* SELECT id FROM events WHERE calendar_event_id = ? *)
ExistingIds(evs, x) == {i \in DOMAIN evs : evs[i].calendar_event_id = x}

Min(S) == CHOOSE m \in S : \A n \in S : m <= n

(* Variant: the error strikes after the insert was committed. *)
StoreEvent_FailAfterCommit(evs, d, sync, now, fail) ==
  IF sync /\ d.calendar_event_id # NULL
          /\ ExistingIds(evs, d.calendar_event_id) # {}
  THEN [events |-> [i \in DOMAIN evs |->
                      IF evs[i].calendar_event_id = d.calendar_event_id
                      THEN UpdateRow(evs[i], d, now) ELSE evs[i]],
        ret |-> IF fail THEN NULL ELSE Min(ExistingIds(evs, d.calendar_event_id))]
  ELSE [events |-> Append(evs, NewRow(Len(evs) + 1, d, sync, now)),
        ret |-> IF fail THEN NULL ELSE Len(evs) + 1]

(* store_event(event_data, sync) at time now; fail: sqlite3.Error raised   *)
(* inside the connection block (the transaction is rolled back).           *)
StoreEvent(evs, d, sync, now, fail) ==
  IF fail THEN [events |-> evs, ret |-> NULL]
  ELSE IF sync /\ d.calendar_event_id # NULL
          /\ ExistingIds(evs, d.calendar_event_id) # {}
  THEN [events |-> [i \in DOMAIN evs |->
                      IF evs[i].calendar_event_id = d.calendar_event_id
                      THEN UpdateRow(evs[i], d, now) ELSE evs[i]],
        ret |-> Min(ExistingIds(evs, d.calendar_event_id))]
  ELSE [events |-> Append(evs, NewRow(Len(evs) + 1, d, sync, now)),
        ret |-> Len(evs) + 1]

(* softDelete(id): sets the is_deleted flag of the row (spec 4.1); the      *)
(* source declares and reads the flag but holds no operation that sets it. *)
SoftDelete(evs, id) ==
  [i \in DOMAIN evs |-> IF evs[i].id = id
                          THEN [evs[i] EXCEPT !.is_deleted = TRUE] ELSE evs[i]]

(* ----------------------------- get_events ----------------------------- *)
EventDict(r) ==
  [id |-> r.id, title |-> r.title,
   start_datetime |-> r.start_datetime, end_datetime |-> r.end_datetime,
   description |-> r.description, location |-> r.location,
   attendees |-> r.attendees, calendar_event_id |-> r.calendar_event_id,
   created_at |-> r.created_at, updated_at |-> r.updated_at,
   synced_at |-> r.synced_at]

(* Variant: the query without its is_deleted = 0 condition. *)
GetEventsWhere_NoDeletedFilter(evs, start_date, end_date) ==
  {i \in DOMAIN evs :
     /\ (start_date # None => TextLeq(start_date[1], evs[i].start_datetime))
     /\ (end_date # None => TextLeq(evs[i].end_datetime, end_date[1]))}

(* WHERE is_deleted = 0 [AND start_datetime >= ?] [AND end_datetime <= ?] *)
GetEventsWhere(evs, start_date, end_date) ==
  {i \in DOMAIN evs :
     /\ ~evs[i].is_deleted
     /\ (start_date # None => TextLeq(start_date[1], evs[i].start_datetime))
     /\ (end_date # None => TextLeq(evs[i].end_datetime, end_date[1]))}

(* The orders in which SQLite may return the rows S: ORDER BY              *)
(* start_datetime ASC when ordered, any order otherwise; rows with equal   *)
(* keys come in an order SQL leaves open.                                  *)
RowOrders(evs, S, ordered) ==
  {q \in [1..Cardinality(S) -> S] :
     /\ \A i, j \in 1..Cardinality(S) : i # j => q[i] # q[j]
     /\ ordered => \A i, j \in 1..Cardinality(S) :
                     i < j => TextLeq(evs[q[i]].start_datetime, evs[q[j]].start_datetime)}

(* LIMIT ? is added only when limit is truthy (neither None nor 0). *)
ApplyLimit(q, limit) ==
  IF limit = None \/ limit = Some(0) THEN q
  ELSE SubSeq(q, 1, IF limit[1] < Len(q) THEN limit[1] ELSE Len(q))

(* The results get_events may return. *)
GetEvents(evs, start_date, end_date, limit) ==
  {[k \in DOMAIN ApplyLimit(q, limit) |-> EventDict(evs[ApplyLimit(q, limit)[k]])] :
     q \in RowOrders(evs, GetEventsWhere(evs, start_date, end_date), TRUE)}

(* get_all_events() *)
GetAllEvents(evs) == GetEvents(evs, None, None, None)

(* --------------------------- check_conflicts -------------------------- *)
ConflictDict(r) ==
  [id |-> r.id, title |-> r.title,
   start_datetime |-> r.start_datetime, end_datetime |-> r.end_datetime]

CheckConflictsWhere(evs, start_datetime, end_datetime, gap_minutes) ==
  LET buffer_start == ShiftIso(start_datetime, 0 - gap_minutes)
      buffer_end == ShiftIso(end_datetime, gap_minutes)
  IN {i \in DOMAIN evs :
        /\ ~evs[i].is_deleted
        /\ \/ /\ TextLess(evs[i].start_datetime, buffer_end)
              /\ TextLess(buffer_start, evs[i].end_datetime)
           \/ /\ TextLess(evs[i].start_datetime, end_datetime)
              /\ TextLess(start_datetime, evs[i].end_datetime)}

(* The results check_conflicts may return (no ORDER BY). *)
CheckConflicts(evs, start_datetime, end_datetime, gap_minutes) ==
  {[k \in DOMAIN q |-> ConflictDict(evs[q[k]])] :
     q \in RowOrders(evs, CheckConflictsWhere(evs, start_datetime, end_datetime,
                                             gap_minutes), FALSE)}

(* ------------------------ sync_calendar_events ------------------------ *)
(* A provider event: start and end hold an optional dateTime and an        *)
(* optional date; id, summary, description and location may be absent;     *)
(* an attendee without email is "".                                        *)
When(dateTime, date) == [dateTime |-> dateTime, date |-> date]
NoWhen == When(None, None)

RemoteEvents ==
  { [id |-> Some(1), summary |-> Some("a"), description |-> None, location |-> None,
     attendees |-> << >>,
     start |-> When(Some(Timed(1)), None), end |-> When(Some(Timed(2)), None)],
    [id |-> Some(1), summary |-> None, description |-> Some("d"), location |-> Some("l"),
     attendees |-> << "x", "" >>,
     start |-> When(None, Some(DateOnly(2))), end |-> When(None, Some(DateOnly(4)))],
    [id |-> None, summary |-> Some("a"), description |-> None, location |-> None,
     attendees |-> << >>,
     start |-> When(Some(Timed(1)), Some(DateOnly(2))), end |-> When(Some(Timed(2)), None)],
    [id |-> Some(2), summary |-> Some("a"), description |-> None, location |-> None,
     attendees |-> << >>,
     start |-> NoWhen, end |-> When(Some(Timed(2)), None)],
    [id |-> Some(1), summary |-> Some("b"), description |-> None, location |-> None,
     attendees |-> << >>,
     start |-> When(None, Some(DateOnly(2))), end |-> NoWhen] }

(* a or b of two optional values *)
OrElse(a, b) == IF a # None THEN a ELSE b
(* x.get(key, default) *)
GetOr(a, default) == IF a # None THEN a[1] ELSE default

RECURSIVE Emails(_)
Emails(atts) ==
  IF atts = << >> THEN << >>
  ELSE IF Head(atts) # "" THEN << Head(atts) >> \o Emails(Tail(atts))
       ELSE Emails(Tail(atts))

(* Variant: only the start is checked; a missing end falls back to the     *)
(* start.                                                                  *)
ConvertFromCalendarEvent_NoEndCheck(ce) ==
  LET start_datetime == OrElse(ce.start.dateTime, ce.start.date)
      end_datetime == OrElse(ce.end.dateTime, ce.end.date)
  IN IF start_datetime = None THEN None
     ELSE Some([title |-> GetOr(ce.summary, "Untitled Event"),
                start_datetime |-> start_datetime[1],
                end_datetime |-> GetOr(end_datetime, start_datetime[1]),
                description |-> GetOr(ce.description, ""),
                location |-> GetOr(ce.location, ""),
                attendees |-> Emails(ce.attendees),
                calendar_event_id |-> GetOr(ce.id, NULL)])

(* GoogleCalendarAPI._convert_from_calendar_event: None when start or end  *)
(* has neither a dateTime nor a date.                                      *)
ConvertFromCalendarEvent(ce) ==
  LET start_datetime == OrElse(ce.start.dateTime, ce.start.date)
      end_datetime == OrElse(ce.end.dateTime, ce.end.date)
  IN IF start_datetime = None \/ end_datetime = None THEN None
     ELSE Some([title |-> GetOr(ce.summary, "Untitled Event"),
                start_datetime |-> start_datetime[1],
                end_datetime |-> end_datetime[1],
                description |-> GetOr(ce.description, ""),
                location |-> GetOr(ce.location, ""),
                attendees |-> Emails(ce.attendees),
                calendar_event_id |-> GetOr(ce.id, NULL)])

(* GoogleCalendarAPI.get_events: the converted items, unconvertible ones   *)
(* left out; [] when the provider call fails.                              *)
RECURSIVE ConvertAll(_)
ConvertAll(items) ==
  IF items = << >> THEN << >>
  ELSE ConvertAll(SubSeq(items, 1, Len(items) - 1))
         \o ConvertFromCalendarEvent(items[Len(items)])

ApiGetEvents(items, httpError) == IF httpError THEN << >> ELSE ConvertAll(items)

(* The loop of sync_calendar_events from item k on: store_event catches    *)
(* sqlite3.Error itself and returns None, so every item is counted.        *)
(* rets logs what each store_event call returned.                          *)
RECURSIVE SyncLoop(_, _, _, _, _)
(* Variant: the batch is walked from its last item to its first. *)
SyncLoop_Backwards(st, calendar_events, k, now, fails) ==
  IF k > Len(calendar_events) THEN st
  ELSE LET r == StoreEvent(st.events, calendar_events[Len(calendar_events) + 1 - k],
                           TRUE, now + k, k \in fails)
       IN SyncLoop([events |-> r.events,
                    events_synced |-> st.events_synced + 1,
                    rets |-> Append(st.rets, r.ret)],
                   calendar_events, k + 1, now, fails)

SyncLoop(st, calendar_events, k, now, fails) ==
  IF k > Len(calendar_events) THEN st
  ELSE LET r == StoreEvent(st.events, calendar_events[k], TRUE, now + k, k \in fails)
       IN SyncLoop([events |-> r.events,
                    events_synced |-> st.events_synced + 1,
                    rets |-> Append(st.rets, r.ret)],
                   calendar_events, k + 1, now, fails)

SyncCalendarEvents(evs, items, httpError, now, fails) ==
  SyncLoop([events |-> evs, events_synced |-> 0, rets |-> << >>],
           ApiGetEvents(items, httpError), 1, now, fails)

Batches == UNION {[1..n -> RemoteEvents] : n \in 0..MaxBatch}
(* Storage fails at no position or at one. *)
FailSets == {{}} \cup {{k} : k \in 1..MaxBatch}

(* ------------------------------ handlers ------------------------------ *)
Idle == op = "idle"

(* except sqlite3.Error: return [] -- what a query returns when storage    *)
(* fails, in place of its results.                                         *)
OnError(fail, results) == IF fail THEN { << >> } ELSE results

StoreEventAct(d, sync, fail) ==
  /\ Idle
  /\ clock < MaxCalls
  /\ LET r == StoreEvent(events, d, sync, clock + 1, fail)
     IN /\ events' = r.events
        /\ ret' = r.ret
  /\ clock' = clock + 1
  /\ op' = "store_event"
  /\ arg' = [draft |-> d, sync |-> sync, fail |-> fail]
  /\ UNCHANGED tasks

SoftDeleteAct(id) ==
  /\ Idle
  /\ id \in DOMAIN events
  /\ events' = SoftDelete(events, id)
  /\ op' = "soft_delete"
  /\ arg' = [id |-> id, was_deleted |-> events[id].is_deleted]
  /\ ret' = NULL
  /\ UNCHANGED << clock, tasks >>

(* fail: sqlite3.Error raised; get_events logs it and returns []. *)
GetEventsAct(start_date, end_date, limit, fail) ==
  /\ Idle
  /\ op' = "get_events"
  /\ arg' = [start_date |-> start_date, end_date |-> end_date, limit |-> limit,
             fail |-> fail]
  /\ ret' \in OnError(fail, GetEvents(events, start_date, end_date, limit))
  /\ UNCHANGED << events, clock, tasks >>

(* Variant: the matching rows are touched while they are read. *)
CheckConflictsAct_Touch(s, e, g, fail) ==
  /\ Idle
  /\ op' = "check_conflicts"
  /\ arg' = [start_datetime |-> s, end_datetime |-> e, gap_minutes |-> g,
             fail |-> fail]
  /\ ret' \in OnError(fail, CheckConflicts(events, s, e, g))
  /\ events' = [i \in DOMAIN events |->
                  IF ~fail /\ i \in CheckConflictsWhere(events, s, e, g)
                  THEN [events[i] EXCEPT !.updated_at = clock + 1]
                  ELSE events[i]]
  /\ UNCHANGED << clock, tasks >>

(* fail: sqlite3.Error raised; check_conflicts logs it and returns []. *)
CheckConflictsAct(s, e, g, fail) ==
  /\ Idle
  /\ op' = "check_conflicts"
  /\ arg' = [start_datetime |-> s, end_datetime |-> e, gap_minutes |-> g,
             fail |-> fail]
  /\ ret' \in OnError(fail, CheckConflicts(events, s, e, g))
  /\ UNCHANGED << events, clock, tasks >>

(* fails: the positions of the converted batch at which storage fails. *)
SyncAct(items, httpError, fails) ==
  /\ Idle
  /\ LET r == SyncCalendarEvents(events, items, httpError, clock, fails)
     IN /\ events' = r.events
        /\ ret' = [events_synced |-> r.events_synced, rets |-> r.rets]
        /\ clock' = clock + Len(r.rets)
  /\ op' = "sync"
  /\ arg' = [items |-> items, httpError |-> httpError, fails |-> fails,
             before |-> events]
  /\ UNCHANGED tasks

(* The caller takes the result; the next call can start. *)
Respond ==
  /\ ~Idle
  /\ op' = "idle"
  /\ arg' = NULL
  /\ ret' = NULL
  /\ UNCHANGED << events, clock, tasks >>

(* ------------------------ HybridEventParser --------------------------- *)
(* What one parser can return for a prompt: None or an event dictionary.   *)
ParserResults ==
  {None} \cup {Some(MkDraft(p, Timed(i[1]), Timed(i[2]), NULL)) :
                 p \in {PayloadA, PayloadB},
                 i \in {<<0, 1>>, <<1, 3>>, <<2, 2>>, <<3, 4>>}}

(* result["parsing_method"] = "simple_fallback" *)
MarkFallback(d) ==
  [k \in DOMAIN d \cup {"parsing_method"} |->
     IF k = "parsing_method" THEN "simple_fallback" ELSE d[k]]

(* Variant: the simple parser is run up front, whatever the advanced one   *)
(* gives.                                                                  *)
ParseEvent_SimpleAlways(langchain_available, advanced, simple) ==
  LET first == IF langchain_available THEN << "langchain" >> ELSE << >>
  IN IF langchain_available /\ advanced # None
     THEN [result |-> advanced, calls |-> << "simple" >> \o first]
     ELSE [result |-> IF simple # None THEN Some(MarkFallback(simple[1])) ELSE None,
           calls |-> << "simple" >> \o first]

(* HybridEventParser.parse_event: advanced is what parse_with_langchain    *)
(* gives when it is called, simple what parse_event_with_simple_llm gives  *)
(* when it is called; calls lists the parsers called, in order.            *)
ParseEvent(langchain_available, advanced, simple) ==
  LET first == IF langchain_available THEN << "langchain" >> ELSE << >>
  IN IF langchain_available /\ advanced # None
     THEN [result |-> advanced, calls |-> first]
     ELSE [result |-> IF simple # None THEN Some(MarkFallback(simple[1])) ELSE None,
           calls |-> first \o << "simple" >>]

ParseEventAct(langchain_available, advanced, simple) ==
  /\ Idle
  /\ op' = "parse_event"
  /\ arg' = [langchain_available |-> langchain_available, advanced |-> advanced,
             simple |-> simple]
  /\ ret' = ParseEvent(langchain_available, advanced, simple)
  /\ UNCHANGED << events, clock, tasks >>

(* -------------------------- concurrent callers ------------------------ *)
(* The database is a file every caller opens for itself                    *)
(* (sqlite3.connect(DB_PATH) in each function), so callers in different    *)
(* processes or threads interleave between SQL statements; each statement  *)
(* with its commit is atomic.  On one event loop two add_event coroutines  *)
(* interleave only at the await of the parser, which touches no shared     *)
(* state, so a worker is modelled as serving one call at a time.           *)
Workers == {1, 2}

NoTask == [fn |-> "none"]

Free(w) == tasks[w].fn = "none"

At(w, fn, pc) == tasks[w].fn = fn /\ tasks[w].pc = pc

(* store_event, statement by statement.  Entry: current_time is taken and  *)
(* the branch on `sync and calendar_event_id` decides whether the SELECT   *)
(* runs.                                                                   *)
StoreEventCall(w, d, sync) ==
  /\ Idle /\ Free(w)
  /\ clock < MaxCalls
  /\ tasks' = [tasks EXCEPT ![w] =
                 [fn |-> "store_event",
                  pc |-> IF sync /\ d.calendar_event_id # NULL THEN "select" ELSE "insert",
                  draft |-> d, sync |-> sync, now |-> clock + 1,
                  existing |-> {}, ret |-> NULL]]
  /\ clock' = clock + 1
  /\ UNCHANGED << events, op, arg, ret >>

(* SELECT id FROM events WHERE calendar_event_id = ?; fetchone() *)
StoreEventSelect(w) ==
  /\ At(w, "store_event", "select")
  /\ LET existing == ExistingIds(events, tasks[w].draft.calendar_event_id)
     IN tasks' = [tasks EXCEPT ![w].existing = existing,
                               ![w].pc = IF existing # {} THEN "update" ELSE "insert"]
  /\ UNCHANGED << events, clock, op, arg, ret >>

(* UPDATE events SET ... WHERE calendar_event_id = ?; commit; return       *)
(* existing[0].  fail: sqlite3.Error, None is returned.                    *)
StoreEventUpdate(w, fail) ==
  /\ At(w, "store_event", "update")
  /\ events' = IF fail THEN events
               ELSE [i \in DOMAIN events |->
                       IF events[i].calendar_event_id = tasks[w].draft.calendar_event_id
                       THEN UpdateRow(events[i], tasks[w].draft, tasks[w].now)
                       ELSE events[i]]
  /\ tasks' = [tasks EXCEPT ![w].pc = "return",
                            ![w].ret = IF fail THEN NULL ELSE Min(tasks[w].existing)]
  /\ UNCHANGED << clock, op, arg, ret >>

(* INSERT INTO events ...; commit; return cursor.lastrowid.                *)
(* fail: sqlite3.Error, None is returned.                                  *)
StoreEventInsert(w, fail) ==
  /\ At(w, "store_event", "insert")
  /\ events' = IF fail THEN events
               ELSE Append(events, NewRow(Len(events) + 1, tasks[w].draft,
                                          tasks[w].sync, tasks[w].now))
  /\ tasks' = [tasks EXCEPT ![w].pc = "return",
                            ![w].ret = IF fail THEN NULL ELSE Len(events) + 1]
  /\ UNCHANGED << clock, op, arg, ret >>

(* The call returns to its caller. *)
StoreEventReturn(w) ==
  /\ At(w, "store_event", "return")
  /\ tasks' = [tasks EXCEPT ![w] = NoTask]
  /\ UNCHANGED << events, clock, op, arg, ret >>

(* add_event (POST /add-event), step by step. *)
Response(success, message, event_id, conflicts) ==
  [success |-> success, message |-> message, event_id |-> event_id,
   conflicts |-> conflicts]

(* log: the functions that logged a database error (logger.error in the   *)
(* except branches of db.py) during the request.  creates: the calls of    *)
(* add_event_to_calendar made for the request.                             *)
AddTask(pc, parsed_event, conflicts, calendar_event_id, store_ret, response, log, creates) ==
  [fn |-> "add_event", pc |-> pc, parsed_event |-> parsed_event,
   conflicts |-> conflicts, calendar_event_id |-> calendar_event_id,
   store_ret |-> store_ret, response |-> response, log |-> log,
   creates |-> creates]

Logged(fail, fn) == IF fail THEN {fn} ELSE {}

(* Variant: without a parsed event the request still goes to the remote    *)
(* create.                                                                 *)
AddEventParse_GoOn(w, parsed) ==
  /\ Idle /\ Free(w)
  /\ clock < MaxCalls
  /\ tasks' = [tasks EXCEPT ![w] =
                 IF parsed = None
                 THEN AddTask("create", None, << >>, NULL, NULL, NULL, {}, 0)
                 ELSE AddTask("check", parsed, << >>, NULL, NULL, NULL, {}, 0)]
  /\ UNCHANGED << events, clock, op, arg, ret >>

(* Step 1: parsed_event = await parse_event_with_llm(...); a failure       *)
(* response when nothing was parsed.                                       *)
AddEventParse(w, parsed) ==
  /\ Idle /\ Free(w)
  /\ clock < MaxCalls
  /\ tasks' = [tasks EXCEPT ![w] =
                 IF parsed = None
                 THEN AddTask("respond", None, << >>, NULL, NULL,
                              Response(FALSE, "parse", NULL, << >>), {}, 0)
                 ELSE AddTask("check", parsed, << >>, NULL, NULL, NULL, {}, 0)]
  /\ UNCHANGED << events, clock, op, arg, ret >>

(* Variant: the conflicts are found and the request goes on to the remote  *)
(* create all the same.                                                    *)
AddEventCheck_GoOn(w, fail) ==
  /\ At(w, "add_event", "check")
  /\ \E conflicts \in OnError(fail,
          CheckConflicts(events, tasks[w].parsed_event[1].start_datetime,
                         tasks[w].parsed_event[1].end_datetime, DefaultGap)) :
       tasks' = [tasks EXCEPT ![w] =
                   AddTask("create", tasks[w].parsed_event, conflicts, NULL, NULL,
                           NULL, Logged(fail, "check_conflicts"), 0)]
  /\ UNCHANGED << events, clock, op, arg, ret >>

(* Step 2: conflicts = check_conflicts(start, end) with the default gap;   *)
(* a failure response carrying the conflicts when there are any.           *)
AddEventCheck(w, fail) ==
  /\ At(w, "add_event", "check")
  /\ \E conflicts \in OnError(fail,
          CheckConflicts(events, tasks[w].parsed_event[1].start_datetime,
                         tasks[w].parsed_event[1].end_datetime, DefaultGap)) :
       tasks' = [tasks EXCEPT ![w] =
                   IF conflicts # << >>
                   THEN AddTask("respond", tasks[w].parsed_event, conflicts, NULL, NULL,
                                Response(FALSE, "conflict", NULL, conflicts),
                                Logged(fail, "check_conflicts"), 0)
                   ELSE AddTask("create", tasks[w].parsed_event, conflicts, NULL, NULL,
                                NULL, Logged(fail, "check_conflicts"), 0)]
  /\ UNCHANGED << events, clock, op, arg, ret >>

(* Variant: a failed remote create is tried again. *)
AddEventCreate_Retry(w, ok) ==
  /\ At(w, "add_event", "create")
  /\ tasks' = [tasks EXCEPT ![w] =
                 AddTask(IF ok THEN "store" ELSE "create", tasks[w].parsed_event,
                         tasks[w].conflicts, IF ok THEN clock + 1 ELSE NULL, NULL, NULL,
                         tasks[w].log, tasks[w].creates + 1)]
  /\ clock' = IF ok THEN clock + 1 ELSE clock
  /\ UNCHANGED << events, op, arg, ret >>

(* Step 3: calendar_event_id = add_event_to_calendar(parsed_event): a new  *)
(* id of the provider, or None and a failure response.                     *)
AddEventCreate(w, ok) ==
  /\ At(w, "add_event", "create")
  /\ tasks' = [tasks EXCEPT ![w] =
                 IF ok
                 THEN AddTask("store", tasks[w].parsed_event, tasks[w].conflicts,
                              clock + 1, NULL, NULL, tasks[w].log,
                              tasks[w].creates + 1)
                 ELSE AddTask("respond", tasks[w].parsed_event, tasks[w].conflicts,
                              NULL, NULL, Response(FALSE, "calendar", NULL, << >>),
                              tasks[w].log, tasks[w].creates + 1)]
  /\ clock' = IF ok THEN clock + 1 ELSE clock
  /\ UNCHANGED << events, op, arg, ret >>

(* Variant: the store step looks for conflicts once more and refuses the   *)
(* insert when it finds one.                                               *)
AddEventStore_Recheck(w, fail) ==
  /\ At(w, "add_event", "store")
  /\ LET d == [tasks[w].parsed_event[1] EXCEPT
                 !.calendar_event_id = tasks[w].calendar_event_id]
         r == StoreEvent(events, d, FALSE, clock + 1, fail)
         taken == CheckConflictsWhere(events, d.start_datetime, d.end_datetime,
                                      DefaultGap) # {}
     IN /\ events' = IF taken THEN events ELSE r.events
        /\ tasks' = [tasks EXCEPT ![w] =
                       IF taken
                       THEN AddTask("respond", tasks[w].parsed_event, tasks[w].conflicts,
                                    tasks[w].calendar_event_id, NULL,
                                    Response(FALSE, "conflict", NULL, << >>),
                                    tasks[w].log, tasks[w].creates)
                       ELSE AddTask("respond", tasks[w].parsed_event, tasks[w].conflicts,
                                    tasks[w].calendar_event_id, r.ret,
                                    Response(TRUE, "added", tasks[w].calendar_event_id,
                                             << >>),
                                    tasks[w].log \cup Logged(fail, "store_event"),
                                    tasks[w].creates)]
  /\ clock' = clock + 1
  /\ UNCHANGED << op, arg, ret >>

(* Step 4: parsed_event["calendar_event_id"] = calendar_event_id;          *)
(* store_event(parsed_event); the success response.  What store_event      *)
(* returned is dropped by the code; store_ret keeps it for the record.     *)
AddEventStore(w, fail) ==
  /\ At(w, "add_event", "store")
  /\ LET d == [tasks[w].parsed_event[1] EXCEPT
                 !.calendar_event_id = tasks[w].calendar_event_id]
         r == StoreEvent(events, d, FALSE, clock + 1, fail)
     IN /\ events' = r.events
        /\ tasks' = [tasks EXCEPT ![w] =
                       AddTask("respond", tasks[w].parsed_event, tasks[w].conflicts,
                               tasks[w].calendar_event_id, r.ret,
                               Response(TRUE, "added", tasks[w].calendar_event_id,
                                        << >>),
                               tasks[w].log \cup Logged(fail, "store_event"),
                               tasks[w].creates)]
  /\ clock' = clock + 1
  /\ UNCHANGED << op, arg, ret >>

(* The response goes out. *)
AddEventRespond(w) ==
  /\ At(w, "add_event", "respond")
  /\ tasks' = [tasks EXCEPT ![w] = NoTask]
  /\ UNCHANGED << events, clock, op, arg, ret >>

Init ==
  /\ events = << >>
  /\ clock = 0
  /\ op = "idle"
  /\ arg = NULL
  /\ ret = NULL
  /\ tasks = [w \in Workers |-> NoTask]

(* Store specification: inserts, upserts and soft deletes. *)
Next ==
  \/ \E d \in StoreDrafts, sync \in BOOLEAN, fail \in BOOLEAN : StoreEventAct(d, sync, fail)
  \/ \E id \in 1..MaxCalls : SoftDeleteAct(id)
  \/ GetEventsAct(None, None, None, FALSE)
  \/ Respond

Spec == Init /\ [][Next]_vars

(* Query specification: a store of sample intervals, queried; the all-day  *)
(* interval comes in sync-marked, the timed ones by direct insert.         *)
NextQuery ==
  \/ \E d \in QueryDrafts :
       Len(events) < MaxCalls - 1 /\ StoreEventAct(d, d.start_datetime.allDay, FALSE)
  \/ \E id \in 1..MaxCalls : SoftDeleteAct(id)
  \/ \E sd \in RangeBounds, ed \in RangeBounds, limit \in Limits, fail \in BOOLEAN :
       GetEventsAct(sd, ed, limit, fail)
  \/ \E s \in TimedVals, e \in TimedVals, g \in Gaps, fail \in BOOLEAN :
       CheckConflictsAct(s, e, g, fail)
  \/ Respond

SpecQuery == Init /\ [][NextQuery]_vars

(* Reconciliation specification: direct inserts, soft deletes and syncs. *)
NextSync ==
  \/ \E d \in SyncDrafts : clock < 1 /\ StoreEventAct(d, FALSE, FALSE)
  \/ \E id \in 1..MaxCalls : SoftDeleteAct(id)
  \/ \E items \in Batches, fails \in FailSets :
       clock < 2 /\ SyncAct(items, FALSE, fails)
  \/ \E items \in Batches : clock < 2 /\ SyncAct(items, TRUE, {})
  \/ Respond

SpecSync == Init /\ [][NextSync]_vars

(* Race specification: store_event(sync=True) calls for drafts with an     *)
(* external id, from two callers at a time.                                *)
NextRace ==
  \/ \E w \in Workers, d \in SyncDrafts : StoreEventCall(w, d, TRUE)
  \/ \E w \in Workers : StoreEventSelect(w)
  \/ \E w \in Workers, fail \in BOOLEAN : StoreEventUpdate(w, fail)
  \/ \E w \in Workers, fail \in BOOLEAN : StoreEventInsert(w, fail)
  \/ \E w \in Workers : StoreEventReturn(w)

SpecRace == Init /\ [][NextRace]_vars

(* Ordering specification: events as reconciliation stores them, with UTC  *)
(* offsets, listed with and without limit.                                 *)
NextZone ==
  \/ \E d \in ZonedDrafts : StoreEventAct(d, TRUE, FALSE)
  \/ \E id \in 1..MaxCalls : SoftDeleteAct(id)
  \/ \E limit \in Limits : GetEventsAct(None, None, limit, FALSE)
  \/ Respond

SpecZone == Init /\ [][NextZone]_vars

(* Parser specification: the hybrid parser over what its two parsers give. *)
NextParse ==
  \/ \E available \in BOOLEAN, advanced \in ParserResults, simple \in ParserResults :
       ParseEventAct(available, advanced, simple)
  \/ Respond

SpecParse == Init /\ [][NextParse]_vars

(* Add-then-reconcile specification: add-event requests, one at a time,    *)
(* soft deletes, and reconciliations of provider batches between them.     *)
Quiet == Idle /\ \A w \in Workers : Free(w)

(* Provider batches of one or two events. *)
ShortBatches == UNION {[1..n -> RemoteEvents] : n \in {1, 2}}

NextAddSync ==
  \/ \E w \in Workers, parsed \in ParsedEvents : Quiet /\ AddEventParse(w, parsed)
  \/ \E w \in Workers : AddEventCheck(w, FALSE)
  \/ \E w \in Workers, ok \in BOOLEAN : AddEventCreate(w, ok)
  \/ \E w \in Workers : AddEventStore(w, FALSE)
  \/ \E w \in Workers : AddEventRespond(w)
  \/ \E id \in 1..MaxCalls : Quiet /\ SoftDeleteAct(id)
  \/ \E items \in ShortBatches, fails \in {{}, {1}} :
       Quiet /\ clock < MaxCalls /\ SyncAct(items, FALSE, fails)
  \/ Respond

SpecAddSync == Init /\ [][NextAddSync]_vars

(* Add-event specification: requests served by two workers. *)
NextAdd ==
  \/ \E w \in Workers, parsed \in ParsedEvents : AddEventParse(w, parsed)
  \/ \E w \in Workers, fail \in BOOLEAN : AddEventCheck(w, fail)
  \/ \E w \in Workers, ok \in BOOLEAN : AddEventCreate(w, ok)
  \/ \E w \in Workers, fail \in BOOLEAN : AddEventStore(w, fail)
  \/ \E w \in Workers : AddEventRespond(w)

SpecAdd == Init /\ [][NextAdd]_vars

(* ============================== claims ================================ *)
ActiveIds(evs) == {i \in DOMAIN evs : ~evs[i].is_deleted}
Carriers(evs, x) == {i \in ActiveIds(evs) : evs[i].calendar_event_id = x}
ReturnedIds(q) == {q[k].id : k \in DOMAIN q}
IsQuery(o) == o \in {"get_events", "check_conflicts"}

(* What the draft d sets in a stored row. *)
CarriesDraft(r, d) ==
  /\ r.title = d.title
  /\ r.start_datetime = d.start_datetime
  /\ r.end_datetime = d.end_datetime
  /\ r.description = d.description
  /\ r.location = d.location
  /\ r.attendees = d.attendees

(* C1: in every state reached by store_event calls, at most one active     *)
(* event carries a given non-null externalId.                              *)
C1_UniqueActiveExternalId ==
  \A i, j \in ActiveIds(events) :
    (events[i].calendar_event_id # NULL
       /\ events[i].calendar_event_id = events[j].calendar_event_id) => i = j

(* C2: an upsert (sync = True, not failing) with an externalId that an     *)
(* active event carries creates no row, overwrites that event's mutable    *)
(* fields with the draft's, refreshes updatedAt and syncedAt and returns   *)
(* that event's id; with an externalId no event carries it inserts a new   *)
(* event with syncedAt set.                                                *)
C2_UpsertStep ==
  (op' = "store_event" /\ arg'.sync /\ ~arg'.fail /\ arg'.draft.calendar_event_id # NULL) =>
    LET d == arg'.draft
        x == d.calendar_event_id
    IN IF Carriers(events, x) # {}
       THEN /\ Len(events') = Len(events)
            /\ ret' \in Carriers(events, x)
            /\ \A i \in Carriers(events, x) :
                 /\ CarriesDraft(events'[i], d)
                 /\ events'[i].updated_at = clock'
                 /\ events'[i].synced_at = clock'
                 /\ events'[i].id = i
       ELSE ExistingIds(events, x) = {} =>
              /\ Len(events') = Len(events) + 1
              /\ ret' = Len(events')
              /\ CarriesDraft(events'[ret'], d)
              /\ events'[ret'].calendar_event_id = x
              /\ events'[ret'].synced_at # NULL
              /\ ~events'[ret'].is_deleted
C2_Upsert == [][C2_UpsertStep]_vars

(* C3: check_conflicts returns an active stored event E if and only if     *)
(* E.start < e + g and E.end > s - g, as instants.                         *)
C3_ConflictIff ==
  (op = "check_conflicts" /\ ~arg.fail) =>
    ReturnedIds(ret) =
      {i \in ActiveIds(events) :
         /\ Instant(events[i].start_datetime) < Instant(arg.end_datetime) + arg.gap_minutes
         /\ Instant(events[i].end_datetime) > Instant(arg.start_datetime) - arg.gap_minutes}

(* The active events as reconciliation sees them. *)
ActiveView(evs) ==
  {[id |-> evs[i].id, calendar_event_id |-> evs[i].calendar_event_id,
    title |-> evs[i].title, start_datetime |-> evs[i].start_datetime,
    end_datetime |-> evs[i].end_datetime, description |-> evs[i].description,
    location |-> evs[i].location, attendees |-> evs[i].attendees] :
     i \in ActiveIds(evs)}

(* C4: reconciling the same batch once more (no provider or storage        *)
(* failure in either call) leaves the active events and the count as the   *)
(* first call left them.                                                   *)
C4_ReconcileIdempotent ==
  (op = "sync" /\ ~arg.httpError /\ arg.fails = {}) =>
    LET again == SyncCalendarEvents(events, arg.items, FALSE, clock, {})
    IN /\ ActiveView(again.events) = ActiveView(events)
       /\ again.events_synced = ret.events_synced

(* C5: the count returned by sync_calendar_events is the number of items   *)
(* that store_event inserted or updated.                                   *)
C5_CountIsApplied ==
  op = "sync" =>
    ret.events_synced = Cardinality({k \in DOMAIN ret.rets : ret.rets[k] # NULL})

(* A provider event with a timed or all-day value for start and for end. *)
Resolvable(ce) ==
  /\ ce.start.dateTime # None \/ ce.start.date # None
  /\ ce.end.dateTime # None \/ ce.end.date # None

RECURSIVE OnlyResolvable(_)
OnlyResolvable(items) ==
  IF items = << >> THEN << >>
  ELSE IF Resolvable(Head(items)) THEN << Head(items) >> \o OnlyResolvable(Tail(items))
       ELSE OnlyResolvable(Tail(items))

(* C6: a provider event without a resolvable start or end is skipped: the  *)
(* store ends as if the batch had not held it, and the count is the number *)
(* of the other items.                                                     *)
C6_UnresolvableSkipped ==
  (op = "sync" /\ ~arg.httpError) =>
    LET kept == OnlyResolvable(arg.items)
        without == SyncCalendarEvents(arg.before, kept, FALSE,
                                      clock - Len(ret.rets), arg.fails)
    IN /\ ret.events_synced = Len(kept)
       /\ Len(ret.rets) = Len(kept)
       /\ events = without.events
       /\ Len(events) <= Len(arg.before) + Len(kept)

C6_Witness ==
  /\ op = "sync" /\ ~arg.httpError /\ arg.fails = {}
  /\ Len(arg.items) = 3
  /\ Len(OnlyResolvable(arg.items)) = 2
  /\ ~Resolvable(arg.items[2])
  /\ ret.events_synced = 2
  /\ Len(events) = Len(arg.before) + 2

(* C7: get_events, get_all_events and check_conflicts never return an      *)
(* event whose deleted flag is set.                                        *)
C7_QueriesSkipDeleted ==
  IsQuery(op) => \A k \in DOMAIN ret : ~events[ret[k].id].is_deleted

C7_Witness ==
  /\ IsQuery(op)
  /\ ret # << >>
  /\ \E i \in DOMAIN events :
       /\ events[i].is_deleted
       /\ \E k \in DOMAIN ret : events[ret[k].id].start_datetime = events[i].start_datetime
                                /\ events[ret[k].id].end_datetime = events[i].end_datetime

(* C8: get_events with a range and no limit returns exactly the active     *)
(* events whose interval intersects the range; with no range, all active   *)
(* events.  Stated for timed events with start < end, whose intersection   *)
(* with a range is beyond dispute.                                         *)
IntersectsRange(r, start_date, end_date) ==
  /\ start_date # None => Instant(r.end_datetime) > Instant(start_date[1])
  /\ end_date # None => Instant(r.start_datetime) < Instant(end_date[1])

WellFormed(r) ==
  /\ ~r.start_datetime.allDay /\ ~r.end_datetime.allDay
  /\ Instant(r.start_datetime) < Instant(r.end_datetime)

C8_RangeIntersects ==
  (op = "get_events" /\ ~arg.fail /\ arg.limit = None) =>
    \A i \in ActiveIds(events) :
      WellFormed(events[i]) =>
        (i \in ReturnedIds(ret)
           <=> IntersectsRange(events[i], arg.start_date, arg.end_date))

(* C9: for an inserted event and a range, both with start <= end, a query  *)
(* (no limit) whose range contains the event's interval returns it, and    *)
(* one whose range is disjoint from it does not.                           *)
C9_RoundTrip ==
  (op = "get_events" /\ ~arg.fail /\ arg.limit = None
     /\ arg.start_date # None /\ arg.end_date # None
     /\ Instant(arg.start_date[1]) <= Instant(arg.end_date[1])) =>
    \A i \in ActiveIds(events) :
      LET s == Instant(events[i].start_datetime)
          e == Instant(events[i].end_datetime)
          rs == Instant(arg.start_date[1])
          re == Instant(arg.end_date[1])
      IN s <= e =>
           /\ (rs <= s /\ e <= re) => i \in ReturnedIds(ret)
           /\ (e < rs \/ re < s) => i \notin ReturnedIds(ret)

(* C10: once softDelete(id) has marked an event, the event stays marked    *)
(* in every later state and no query returns it; softDelete(id) on a       *)
(* marked event changes nothing.                                           *)
C10_SoftDeleteStep ==
  /\ \A i \in DOMAIN events :
       events[i].is_deleted =>
         /\ i \in DOMAIN events' /\ events'[i].is_deleted /\ events'[i].id = i
         /\ IsQuery(op') => i \notin ReturnedIds(ret')
  /\ (op' = "soft_delete" /\ arg'.was_deleted) => events' = events
  /\ op' = "soft_delete" => events'[arg'.id].is_deleted
Ids(evs) == {evs[i].id : i \in DOMAIN evs}

C11_IdStep ==
  /\ \A i \in DOMAIN events : i \in DOMAIN events' /\ events'[i].id = events[i].id
  /\ \A i \in DOMAIN events' \ DOMAIN events :
       \A j \in DOMAIN events : events'[i].id > events[j].id
  /\ \A i, j \in DOMAIN events' : events'[i].id = events'[j].id => i = j
  /\ (op' = "store_event" /\ ret' # NULL /\ ret' \in Ids(events)) => Ids(events') = Ids(events)
  /\ (op' = "store_event" /\ ret' # NULL /\ ret' \notin Ids(events)) =>
       Ids(events') = Ids(events) \cup {ret'}
C11_IdsFreshAndStable == [][C11_IdStep]_vars

C11_Witness ==
  /\ op = "store_event" /\ arg.sync /\ ret = 1
  /\ Len(events) = 2
  /\ events[1].updated_at > events[2].created_at

(* C12: syncedAt is non-null only for an event that carries an externalId  *)
(* and went through store_event with sync = True; a direct insert and a    *)
(* sync-marked draft without externalId leave syncedAt null.               *)
C12_SyncedOnlyWithExternalId ==
  /\ \A i \in DOMAIN events :
       events[i].synced_at # NULL => events[i].calendar_event_id # NULL
  /\ (op = "store_event" /\ ~arg.sync /\ ret # NULL) => events[ret].synced_at = NULL

(* C15: when storage fails, store_event reports a result the caller can    *)
(* tell from success (None, never an id) and the store is as before; a     *)
(* call that does not fail returns the id of a stored event.               *)
C15_FailStep ==
  op' = "store_event" =>
    IF arg'.fail THEN ret' = NULL /\ events' = events
    ELSE ret' # NULL /\ ret' \in DOMAIN events' /\ events' # events
C15_StorageFailure == [][C15_FailStep]_vars

C15_Witness ==
  /\ op = "store_event" /\ arg.fail /\ arg.sync
  /\ ret = NULL
  /\ Carriers(events, arg.draft.calendar_event_id) # {}

(* C18: when the only events carrying the externalId are soft-deleted, an  *)
(* upsert inserts a new active event with a fresh id and leaves the        *)
(* deleted events as they are.                                             *)
C18_DeletedCarrierStep ==
  (op' = "store_event" /\ arg'.sync /\ ~arg'.fail
     /\ arg'.draft.calendar_event_id # NULL
     /\ Carriers(events, arg'.draft.calendar_event_id) = {}
     /\ ExistingIds(events, arg'.draft.calendar_event_id) # {}) =>
    /\ Len(events') = Len(events) + 1
    /\ ret' = Len(events')
    /\ ~events'[ret'].is_deleted
    /\ \A i \in DOMAIN events : events'[i] = events[i]
C18_UpsertOverDeleted == [][C18_DeletedCarrierStep]_vars

(* C16: a storage failure during check_conflicts or get_events reaches the *)
(* caller as an error, never as the empty result a query over an empty     *)
(* store gives.                                                            *)
C16_QueryFailureIsError ==
  (IsQuery(op) /\ arg.fail) => ret # << >>

(* C17: check_conflicts is read-only: a call, with any candidate and gap   *)
(* and whether or not it finds conflicts, leaves every stored event as it  *)
(* was.                                                                    *)
C17_ReadOnlyStep == op' = "check_conflicts" => events' = events
C17_CheckConflictsReadOnly == [][C17_ReadOnlyStep]_vars

C17_Witness ==
  /\ op = "check_conflicts" /\ ~arg.fail
  /\ arg.gap_minutes > 0
  /\ Len(ret) = 1
  /\ \E i \in DOMAIN events : events[i].is_deleted

(* C19: the overlap test is strict at both ends: an active event that ends *)
(* exactly at s - g, or starts exactly at e + g, is not a conflict, while  *)
(* an event starting before e + g and ending after s - g is one.           *)
C19_StrictAtBothEnds ==
  (op = "check_conflicts" /\ ~arg.fail) =>
    \A i \in ActiveIds(events) :
      LET lo == Instant(arg.start_datetime) - arg.gap_minutes
          hi == Instant(arg.end_datetime) + arg.gap_minutes
          es == Instant(events[i].start_datetime)
          ee == Instant(events[i].end_datetime)
      IN /\ (ee = lo \/ es = hi) => i \notin ReturnedIds(ret)
         /\ (es = hi - 1 /\ ee > lo) => i \in ReturnedIds(ret)
         /\ (ee = lo + 1 /\ es < hi) => i \in ReturnedIds(ret)

(* C20: a zero-length or inverted candidate (end <= start) is not          *)
(* rejected: check_conflicts returns exactly the active events E with      *)
(* E.start < e + g and E.end > s - g.                                      *)
C20_DegenerateCandidate ==
  (op = "check_conflicts" /\ ~arg.fail
     /\ Instant(arg.end_datetime) <= Instant(arg.start_datetime)) =>
    \A i \in ActiveIds(events) :
      i \in ReturnedIds(ret)
        <=> /\ Instant(events[i].start_datetime)
                 < Instant(arg.end_datetime) + arg.gap_minutes
            /\ Instant(events[i].end_datetime)
                 > Instant(arg.start_datetime) - arg.gap_minutes

(* C13: under any interleaving of concurrent store_event(sync=True) calls  *)
(* for one externalId, lookup and insert-or-update act atomically: once    *)
(* the calls have returned, no two active events share an externalId.      *)
C13_UpsertAtomic ==
  (\A w \in Workers : Free(w)) =>
    \A x \in ExtIds : Cardinality(Carriers(events, x)) <= 1

(* C14: two add-event requests for overlapping intervals can both pass the *)
(* conflict check before either inserts, and then both are stored: a       *)
(* request whose own check found nothing and whose remote create gave an   *)
(* id is answered with success and, unless storage failed, its event is    *)
(* stored, whatever was inserted in the meantime.                          *)
C14_CheckThenInsert ==
  \A w \in Workers :
    (At(w, "add_event", "respond") /\ tasks[w].parsed_event # None
       /\ tasks[w].conflicts = << >> /\ tasks[w].calendar_event_id # NULL) =>
      /\ tasks[w].response.success
      /\ tasks[w].response.event_id = tasks[w].calendar_event_id
      /\ tasks[w].store_ret # NULL =>
           /\ tasks[w].store_ret \in ActiveIds(events)
           /\ events[tasks[w].store_ret].calendar_event_id = tasks[w].calendar_event_id
           /\ events[tasks[w].store_ret].start_datetime
                = tasks[w].parsed_event[1].start_datetime
           /\ events[tasks[w].store_ret].end_datetime
                = tasks[w].parsed_event[1].end_datetime

C14_Witness ==
  /\ \A w \in Workers :
       /\ At(w, "add_event", "respond")
       /\ tasks[w].response.success
       /\ tasks[w].log = {}
       /\ tasks[w].store_ret \in ActiveIds(events)
  /\ \E v, w \in Workers :
       /\ tasks[v].store_ret # tasks[w].store_ret
       /\ Instant(events[tasks[v].store_ret].start_datetime)
            < Instant(events[tasks[w].store_ret].end_datetime)
       /\ Instant(events[tasks[w].store_ret].start_datetime)
            < Instant(events[tasks[v].store_ret].end_datetime)
       /\ Len(events) = 2

(* C21: the sequence get_events returns is ordered by start ascending: of  *)
(* two consecutive returned events the first does not start after the      *)
(* second, in every store state and for every range and limit.             *)
C21_OrderedByStart ==
  (op = "get_events" /\ ~arg.fail) =>
    \A k \in 1..(Len(ret) - 1) :
      Instant(ret[k].start_datetime) <= Instant(ret[k + 1].start_datetime)

(* C22: when a limit is passed, get_events returns at most limit events,   *)
(* and they are the first limit events of the unlimited result; this holds *)
(* for every limit, 0 included.                                            *)
C22_LimitCaps ==
  (op = "get_events" /\ ~arg.fail /\ arg.limit # None) =>
    /\ Len(ret) <= arg.limit[1]
    /\ \E q \in GetEvents(events, arg.start_date, arg.end_date, None) :
         /\ Len(ret) <= Len(q)
         /\ ret = SubSeq(q, 1, Len(ret))
         /\ Len(ret) < arg.limit[1] => Len(ret) = Len(q)

(* C23: in add-event a local insert happens only after the conflict check  *)
(* returned no conflicts and the remote create returned an externalId, and *)
(* the inserted event carries exactly that externalId; when the check      *)
(* returns any event, neither remote create nor local insert happens.      *)
C23_OrderStep ==
  /\ events' # events =>
       \E w \in Workers :
         /\ At(w, "add_event", "store")
         /\ tasks[w].conflicts = << >>
         /\ tasks[w].creates > 0
         /\ tasks[w].calendar_event_id # NULL
         /\ Len(events') = Len(events) + 1
         /\ \A i \in DOMAIN events : events'[i] = events[i]
         /\ events'[Len(events')].calendar_event_id = tasks[w].calendar_event_id
         /\ tasks'[w].store_ret = Len(events')
  /\ \A w \in Workers :
       (tasks'[w].fn = "add_event" /\ tasks'[w].conflicts # << >>) =>
         /\ tasks'[w].pc = "respond"
         /\ tasks'[w].creates = 0
         /\ tasks'[w].calendar_event_id = NULL
         /\ tasks'[w].store_ret = NULL
         /\ ~tasks'[w].response.success
         /\ (tasks'[w] # tasks[w] => events' = events)
C23_WorkflowOrder == [][C23_OrderStep]_vars

C23_Witness ==
  \E v, w \in Workers :
    /\ At(v, "add_event", "respond") /\ tasks[v].response.success
    /\ tasks[v].store_ret \in ActiveIds(events)
    /\ tasks[v].log = {}
    /\ At(w, "add_event", "respond") /\ tasks[w].conflicts # << >>
    /\ tasks[w].conflicts[1].id = tasks[v].store_ret

(* C24: the remote create is attempted at most once per add-event request  *)
(* and never retried; when it fails (no externalId), the request reports   *)
(* failure and the local store is unchanged.                               *)
C24_CreateStep ==
  \A w \in Workers :
    tasks'[w].fn = "add_event" =>
      /\ tasks'[w].creates <= 1
      /\ (tasks'[w].creates = 1 /\ tasks'[w].calendar_event_id = NULL) =>
           /\ tasks'[w].pc = "respond"
           /\ ~tasks'[w].response.success
           /\ tasks'[w].store_ret = NULL
           /\ (tasks'[w] # tasks[w] => events' = events)
C24_CreateOnce == [][C24_CreateStep]_vars

C24_Witness ==
  \E w \in Workers :
    /\ At(w, "add_event", "respond")
    /\ tasks[w].creates = 1 /\ tasks[w].calendar_event_id = NULL
    /\ ~tasks[w].response.success
    /\ Len(events) > 0

(* C25: when the parser yields no structured event, the add-event request  *)
(* is answered with a failure and nothing else happens: no conflict check  *)
(* result is acted on, no remote create, no stored event, no second parse. *)
C25_ParseFailStep ==
  \A w \in Workers :
    (tasks'[w].fn = "add_event" /\ tasks'[w].parsed_event = None) =>
      /\ tasks'[w].pc = "respond"
      /\ ~tasks'[w].response.success
      /\ tasks'[w].response.message = "parse"
      /\ tasks'[w].response.conflicts = << >>
      /\ tasks'[w].creates = 0 /\ tasks'[w].calendar_event_id = NULL
      /\ tasks'[w].store_ret = NULL /\ tasks'[w].log = {}
      /\ (tasks'[w] # tasks[w] => (Free(w) /\ events' = events))
      /\ \A v \in Workers :
           (tasks[v].fn = "add_event" /\ tasks[v].parsed_event = None) =>
             tasks'[v] \in {tasks[v], NoTask}
C25_ParseFailure == [][C25_ParseFailStep]_vars

C25_Witness ==
  \E w \in Workers :
    /\ At(w, "add_event", "respond")
    /\ tasks[w].parsed_event = None
    /\ Len(events) > 0
    /\ \E v \in Workers : At(v, "add_event", "store")

(* C26: the hybrid parser tries the parsers in a fixed order and the first *)
(* success wins: an available advanced parser that returns a result gives  *)
(* the result and the simple parser is not called; the simple parser is    *)
(* called only when the advanced one is unavailable or failed; the result  *)
(* is a failure only when every parser called failed.                      *)
Called(calls, name) == \E k \in DOMAIN calls : calls[k] = name

C26_FirstSuccessWins ==
  op = "parse_event" =>
    LET won == arg.langchain_available /\ arg.advanced # None
    IN /\ ret.calls \in {<< "langchain" >>, << "simple" >>, << "langchain", "simple" >>}
       /\ Called(ret.calls, "langchain") <=> arg.langchain_available
       /\ Called(ret.calls, "simple") <=> ~won
       /\ won => ret.result = arg.advanced
       /\ (~won /\ arg.simple # None) =>
            /\ ret.result # None
            /\ \A k \in DOMAIN arg.simple[1] : ret.result[1][k] = arg.simple[1][k]
       /\ ret.result = None <=> (~won /\ arg.simple = None)

C26_Witness ==
  /\ op = "parse_event"
  /\ arg.langchain_available /\ arg.advanced # None
  /\ arg.simple # None /\ arg.simple # arg.advanced
  /\ ret.result = arg.advanced
  /\ ret.calls = << "langchain" >>

(* C27: an upsert that updates the event carrying externalId X changes     *)
(* only that event's title, start, end, description, location, attendees,  *)
(* updatedAt and syncedAt: its id, createdAt, externalId and deleted flag  *)
(* are unchanged, and every event with another externalId, or none, is     *)
(* unchanged in every field.                                               *)
Immutables(r) ==
  [id |-> r.id, created_at |-> r.created_at,
   calendar_event_id |-> r.calendar_event_id, is_deleted |-> r.is_deleted]

C27_FrameStep ==
  (op' = "store_event" /\ arg'.sync /\ ~arg'.fail
     /\ arg'.draft.calendar_event_id # NULL
     /\ ExistingIds(events, arg'.draft.calendar_event_id) # {}) =>
    /\ DOMAIN events' = DOMAIN events
    /\ \A i \in DOMAIN events :
         IF events[i].calendar_event_id = arg'.draft.calendar_event_id
         THEN Immutables(events'[i]) = Immutables(events[i])
         ELSE events'[i] = events[i]
C27_UpdateFrame == [][C27_FrameStep]_vars

C27_Witness ==
  /\ op = "store_event" /\ arg.sync /\ ~arg.fail /\ ret = 2
  /\ Len(events) = 2
  /\ events[2].updated_at > events[2].created_at
  /\ events[1].calendar_event_id # events[2].calendar_event_id
  /\ events[2].title # events[1].title

(* C28: when a batch holds two remote events with one externalId and no    *)
(* event with it is stored yet, the items are applied in the order         *)
(* received: afterwards exactly one active event carries the externalId,   *)
(* with the fields of the later item and the id assigned when the earlier  *)
(* item was inserted, and both items are counted.                          *)
Positions(calendar_events, x) ==
  {k \in DOMAIN calendar_events : calendar_events[k].calendar_event_id = x}

Max(S) == CHOOSE m \in S : \A n \in S : n <= m

Twice(x) ==
  /\ op = "sync" /\ ~arg.httpError /\ arg.fails = {}
  /\ Cardinality(Positions(ApiGetEvents(arg.items, FALSE), x)) >= 2
  /\ ExistingIds(arg.before, x) = {}

C28_SameIdInBatch ==
  \A x \in ExtIds :
    Twice(x) =>
      LET calendar_events == ApiGetEvents(arg.items, FALSE)
          pos == Positions(calendar_events, x)
          id == ret.rets[Min(pos)]
      IN /\ Carriers(events, x) = {id}
         /\ ExistingIds(events, x) = {id}
         /\ id \notin DOMAIN arg.before
         /\ events[id].id = id
         /\ events[id].created_at = clock - Len(calendar_events) + Min(pos)
         /\ CarriesDraft(events[id], calendar_events[Max(pos)])
         /\ \A k \in pos : ret.rets[k] = id
         /\ ret.events_synced = Len(calendar_events)

C28_Witness ==
  \E x \in ExtIds :
    /\ Twice(x)
    /\ LET calendar_events == ApiGetEvents(arg.items, FALSE)
           pos == Positions(calendar_events, x)
       IN /\ ~CarriesDraft(events[ret.rets[Min(pos)]], calendar_events[Min(pos)])
          /\ Len(arg.before) > 0

(* C29: whenever an add-event request reports success with an event_id,    *)
(* the local store holds an active event whose externalId is that          *)
(* event_id; success is never reported while the local insert failed.      *)
C29_SuccessMeansStored ==
  \A w \in Workers :
    (At(w, "add_event", "respond") /\ tasks[w].response.success) =>
      /\ tasks[w].store_ret # NULL
      /\ \E i \in ActiveIds(events) :
           events[i].calendar_event_id = tasks[w].response.event_id

(* C30: an event first stored by the add-event workflow with externalId X  *)
(* (direct insert, syncedAt null) and later present in a reconciliation    *)
(* batch with the same X is updated in place: no second event is created,  *)
(* its id and createdAt are kept, and its syncedAt becomes non-null.       *)
AddedUnsynced(evs, x) ==
  {i \in DOMAIN evs : evs[i].calendar_event_id = x /\ evs[i].synced_at = NULL}

C30_AddThenReconcile ==
  (op = "sync" /\ ~arg.httpError) =>
    \A x \in ExtIds :
      LET calendar_events == ApiGetEvents(arg.items, FALSE)
          pos == Positions(calendar_events, x)
      IN (pos # {} /\ pos \cap arg.fails = {}) =>
           \A i \in AddedUnsynced(arg.before, x) :
             /\ {j \in DOMAIN events : events[j].calendar_event_id = x}
                  = {j \in DOMAIN arg.before : arg.before[j].calendar_event_id = x}
             /\ events[i].id = arg.before[i].id
             /\ events[i].created_at = arg.before[i].created_at
             /\ events[i].synced_at # NULL
             /\ CarriesDraft(events[i], calendar_events[Max(pos)])
             /\ \A k \in pos : ret.rets[k] = i

C30_Witness ==
  /\ op = "sync" /\ ~arg.httpError /\ arg.fails = {}
  /\ \E x \in ExtIds :
       /\ Positions(ApiGetEvents(arg.items, FALSE), x) # {}
       /\ \E i \in AddedUnsynced(arg.before, x) :
            /\ ~arg.before[i].is_deleted
            /\ events[i].synced_at # NULL
            /\ events[i].start_datetime # arg.before[i].start_datetime
  /\ Len(events) > Len(arg.before)

====
